---- MODULE Spec2Model ----
(***************************************************************************)
(* A model of src/ALL_SHARES/bookdata.js: the BookData order book, its     *)
(* cross-venue aggregation, the display sort, the VBBO pass and the VWAP   *)
(* scan.                                                                   *)
(*                                                                         *)
(* Prices are integers counting units of 0.00001, so that rounding to four *)
(* decimals (toFixed(4)) is a real conversion: a multiple of 10 is a price *)
(* with four decimals.  Quantities are integers.  A weighted price (a      *)
(* quotient of two JavaScript numbers) is an exact fraction [n, d] in      *)
(* lowest terms.                                                           *)
(*                                                                         *)
(* The level objects are shared between both Side maps, the map built by   *)
(* _aggregate and the sorted arrays.  A stored object is identified by the *)
(* property name it is stored under (field k); its own field key can come  *)
(* to differ from k, because _aggregate assigns to it.                     *)
(***************************************************************************)
EXTENDS Integers, Sequences, FiniteSets, TLC

VARIABLES
    buySide,     \* this.buySide: the level objects, in property (insertion) order
    sellSide,    \* this.sellSide
    sortedBuy,   \* this.sortedBuy: the rows of the last display of the Buy side
    sortedSell,  \* this.sortedSell
    calls,       \* the callback calls and events raised by the last operation
    vwap,        \* the value returned by the last getVwapUpdate
    lastOp,      \* the last operation called, with redisplay's consolidated argument
    lastQty,     \* per side and key, the quantity of the last updateBook since resetData
    nUpdates,    \* number of updateBook calls so far
    nRedisplays  \* number of redisplay calls so far

vars == <<buySide, sellSide, sortedBuy, sortedSell, calls, vwap, lastOp,
          lastQty, nUpdates, nRedisplays>>

----------------------------------------------------------------------------
(* Bounds of the model *)

\* updateBook and redisplay calls in a run
MaxUpdates == 2

MaxRedisplays == 2

\* updateBook and redisplay calls in a run of SpecDeep
DeepUpdates == 3

DeepRedisplays == 3

MaxVwapQty == 2

(* Program constants *)

BUY_SIDE == 1

SELL_SIDE == 2

MaxConsolidatedRows == 5

(* Formatter_MarketPrices: the reserved prices.  Their values are set by   *)
(* the surrounding system; bookdata.js only says that a market order with  *)
(* the high price sorts first among bids and that market orders sort first *)
(* among offers (lines 221 and 254), so BID is above and OFFER below every *)
(* ordinary price of the model.                                            *)
BID == 90

OFFER == -90

UNKNOWN_BID == 80

UNKNOWN_OFFER == -80

Sides == {BUY_SIDE, SELL_SIDE}

Venues == {"XEQT", "A", "B"}

\* the venues of the levels that updateBook is called with in a run
FeedVenues == {"XEQT", "A"}

Levels == {1}

\* the prices of a book of one venue, level by level: the Buy book has a
\* BID market order at its second level, the Sell book an OFFER one
BuyLadder == <<11, BID, 30, 40, 50, 60>>

SellLadder == <<11, OFFER, 30, 40, 50, 60>>

Keys == Venues \X Levels

\* the keys of the levels of a book filled along a ladder
BookKeys == {"A"} \X (1 .. Len(BuyLadder))

\* 0.00000, 0.00006 and 0.00011 (both round to 0.0001), and the markers
Prices == {0, 6, 11, BID, OFFER}

Quantities == 0 .. 2

----------------------------------------------------------------------------
(* Numbers *)

Abs(x) == IF x < 0 THEN -x ELSE x

RECURSIVE GCD(_, _)
GCD(a, b) == IF b = 0 THEN a ELSE GCD(b, a % b)

\* numerator / denominator as a JavaScript number: the exact quotient
Quot(n, d) ==
    LET g == GCD(Abs(n), d)
    IN  [n |-> n \div g, d |-> d \div g]

Num(x) == [n |-> x, d |-> 1]

\* Number.prototype.toFixed(4) of the quotient n/d: the nearest multiple of
\* 0.0001, away from zero at the half
FixRound(n, d) ==
    IF n >= 0 THEN ((2 * n + 10 * d) \div (20 * d)) * 10
              ELSE -(((2 * (-n) + 10 * d) \div (20 * d)) * 10)

toFixed4(p) == FixRound(p, 1)

----------------------------------------------------------------------------
(* The store *)

\* _createKeyData and JSON.stringify: the property name of (venue, level)
createKey(venue, level) == <<venue, level>>

\* _createRow.  k is the identity of the object: the name it is stored under
_createRow(price, qty, venue, level) ==
    [k      |-> createKey(venue, level),
     price  |-> price,
     qty    |-> qty,
     venue  |-> venue,
     vbbo   |-> Num(0),
     cumQty |-> 0,
     key    |-> createKey(venue, level)]

HasKey(sideData, key) == \E i \in 1 .. Len(sideData) : sideData[i].k = key

IndexOf(sideData, key) == CHOOSE i \in 1 .. Len(sideData) : sideData[i].k = key

\* a delete that clears the whole map
DeleteKey_All(sideData, key) == <<>>

\* delete sideData[key]
DeleteKey(sideData, key) == SelectSeq(sideData, LAMBDA row : row.k # key)

\* sideData[key] = newRow: an existing property keeps its place
PutKey(sideData, key, newRow) ==
    IF HasKey(sideData, key)
    THEN [sideData EXCEPT ![IndexOf(sideData, key)] = newRow]
    ELSE Append(sideData, newRow)

\* _setSideData without its delete branch
_setSideData_StoreZero(sideData, newRow) == PutKey(sideData, newRow.key, newRow)

_setSideData(sideData, newRow) ==
    IF newRow.qty = 0
    THEN DeleteKey(sideData, newRow.key)
    ELSE PutKey(sideData, newRow.key, newRow)

----------------------------------------------------------------------------
(* _aggregate.  It works on the stored objects themselves: side is the     *)
(* sequence of objects of a Side map, and the result gives the objects as  *)
(* the call leaves them, with the array of the objects of the returned map.*)

\* parseInt, Converter.toInt and Converter.toFloat of a number that is
\* already an integer (a quantity) or a price
parseInt(q) == q

\* the position in byPriceMap of the entry for roundedPrice, 0 if there is none
SeedAt(side, seeds, roundedPrice) ==
    LET hit == {j \in 1 .. Len(seeds) : toFixed4(side[seeds[j]].price) = roundedPrice}
    IN  IF hit = {} THEN 0 ELSE CHOOSE j \in hit : TRUE

\* the else branch of the first loop: the seed absorbs value
MergeInto(seed, value) ==
    [seed EXCEPT !.qty    = @ + parseInt(value.qty),
                 !.cumQty = @ + value.cumQty,
                 !.key    = IF seed.venue = "" THEN value.key ELSE @]

\* the first loop, from the i-th property of side on; seeds is byPriceMap,
\* the indexes of the seed objects in the order their prices were first seen
RECURSIVE AggregateLoop(_, _, _)
AggregateLoop(side, seeds, i) ==
    IF i > Len(side)
    THEN [side |-> side, seeds |-> seeds]
    ELSE LET value == side[i]
             j     == SeedAt(side, seeds, toFixed4(value.price))
         IN  IF j = 0
             THEN AggregateLoop([side EXCEPT ![i].qty = parseInt(@)],
                                Append(seeds, i), i + 1)
             ELSE AggregateLoop([side EXCEPT ![seeds[j]] = MergeInto(@, value)],
                                seeds, i + 1)

\* result[byPriceValue.key] = byPriceValue, for the j-th seed on: an
\* existing property keeps its place and takes the new object
RECURSIVE Transpose(_, _, _, _)
Transpose(side, seeds, j, result) ==
    IF j > Len(seeds)
    THEN result
    ELSE LET s   == seeds[j]
             hit == {p \in 1 .. Len(result) : side[result[p]].key = side[s].key}
         IN  Transpose(side, seeds, j + 1,
                       IF hit = {} THEN Append(result, s)
                       ELSE [result EXCEPT ![CHOOSE p \in hit : TRUE] = s])

\* byPriceValue.venue = '' for every seed
ClearVenues(side, seeds) ==
    [i \in 1 .. Len(side) |->
        IF \E j \in 1 .. Len(seeds) : seeds[j] = i
        THEN [side[i] EXCEPT !.venue = ""]
        ELSE side[i]]

_aggregate(side) ==
    LET first == AggregateLoop(side, <<>>, 1)
    IN  [side |-> ClearVenues(first.side, first.seeds),
         rows |-> Transpose(first.side, first.seeds, 1, <<>>)]

\* the sort input when the view is not consolidated: the Side map itself
Unaggregated(side) ==
    [side |-> side, rows |-> [i \in 1 .. Len(side) |-> i]]

----------------------------------------------------------------------------
(* The comparators and the sort *)

\* the order of the venue codes as strings: '' < 'A' < 'B' < 'XEQT'
VenueRank(venue) ==
    CASE venue = ""     -> 0
      [] venue = "A"    -> 1
      [] venue = "B"    -> 2
      [] venue = "XEQT" -> 3

\* lhs.venue < rhs.venue, a boolean that the sort reads as 1 or 0
VenueLess(lhs, rhs) == IF VenueRank(lhs.venue) < VenueRank(rhs.venue) THEN 1 ELSE 0

compareCommon(lhs, rhs) ==
    IF rhs.qty - lhs.qty # 0 THEN rhs.qty - lhs.qty
    ELSE IF lhs.venue = "XEQT" THEN -1
    ELSE IF rhs.venue = "XEQT" THEN 1
    ELSE VenueLess(lhs, rhs)

\* _compareBuy without the branches for price 0
_compareBuy_NoZeroFirst(lhs, rhs) ==
    IF rhs.price - lhs.price # 0 THEN rhs.price - lhs.price
    ELSE compareCommon(lhs, rhs)

_compareBuy(lhs, rhs) ==
    IF lhs.price = 0 /\ rhs.price = 0 THEN compareCommon(lhs, rhs)
    ELSE IF lhs.price = 0 THEN -1
    ELSE IF rhs.price = 0 THEN 1
    ELSE IF rhs.price - lhs.price # 0 THEN rhs.price - lhs.price
    ELSE compareCommon(lhs, rhs)

\* _compareSell with the operands of the subtraction exchanged
_compareSell_Descending(lhs, rhs) ==
    IF rhs.price - lhs.price # 0 THEN rhs.price - lhs.price
    ELSE compareCommon(lhs, rhs)

_compareSell(lhs, rhs) ==
    IF lhs.price - rhs.price # 0 THEN lhs.price - rhs.price
    ELSE compareCommon(lhs, rhs)

\* the orders an array of n elements can be put in: the one-to-one functions
\* of 1 .. n onto itself
ArrayOrders(n) == Permutations(1 .. n)

\* a comparator passed as a value: the functor named compare, called
Call(compare, lhs, rhs) ==
    IF compare = "_compareBuy" THEN _compareBuy(lhs, rhs) ELSE _compareSell(lhs, rhs)

\* Array.prototype.sort with a comparator that is not a consistent one
\* (compareCommon answers 1 one way and 0 the other way for two venues):
\* the order is implementation-defined wherever the comparator contradicts
\* itself.  An outcome is any arrangement in which no two elements stand
\* against an order that the comparator gives both ways round.
Ordered(values, compare) ==
    \A i, j \in 1 .. Len(values) :
        i < j => ~(/\ Call(compare, values[i], values[j]) > 0
                   /\ Call(compare, values[j], values[i]) < 0)

\* _sortValues, on the objects of dataObject: the arrays of object indexes
\* that the sort can return
_sortValues(dataObject, compare) ==
    {arr \in {[i \in 1 .. Len(dataObject.rows) |-> dataObject.rows[p[i]]] :
                 p \in ArrayOrders(Len(dataObject.rows))} :
        Ordered([i \in 1 .. Len(arr) |-> dataObject.side[arr[i]]], compare)}

\* the cut to five rows made whether or not the view is consolidated
Truncate_AnyMode(arr, consolidated) ==
    IF Len(arr) > MaxConsolidatedRows
    THEN SubSeq(arr, 1, MaxConsolidatedRows)
    ELSE arr

\* sorted.length = (consolidated && sorted.length > 5) ? 5 : sorted.length
Truncate(arr, consolidated) ==
    IF consolidated /\ Len(arr) > MaxConsolidatedRows
    THEN SubSeq(arr, 1, MaxConsolidatedRows)
    ELSE arr

----------------------------------------------------------------------------
(* VBBOMarkerOrderChecker *)

\* a tracker that starts as one that has seen a BID market order
NewChecker_BidSeen == [isMarkerOrder |-> FALSE, isBidMarkerOrder |-> TRUE, hasMarkerOrder |-> TRUE]

NewChecker == [isMarkerOrder |-> FALSE, isBidMarkerOrder |-> FALSE, hasMarkerOrder |-> FALSE]

\* checkMarketOrder whose default case clears hasMarkerOrder as well
checkMarketOrder_NotSticky(chk, price) ==
    IF price = BID
    THEN [isMarkerOrder |-> TRUE, isBidMarkerOrder |-> TRUE, hasMarkerOrder |-> TRUE]
    ELSE IF price = OFFER
    THEN [isMarkerOrder |-> TRUE, isBidMarkerOrder |-> FALSE, hasMarkerOrder |-> TRUE]
    ELSE [chk EXCEPT !.isMarkerOrder = FALSE, !.hasMarkerOrder = FALSE]

checkMarketOrder(chk, price) ==
    IF price = BID
    THEN [isMarkerOrder |-> TRUE, isBidMarkerOrder |-> TRUE, hasMarkerOrder |-> TRUE]
    ELSE IF price = OFFER
    THEN [isMarkerOrder |-> TRUE, isBidMarkerOrder |-> FALSE, hasMarkerOrder |-> TRUE]
    ELSE [chk EXCEPT !.isMarkerOrder = FALSE]

\* calculateRowPrice returning the row's own price for the weighted one
calculateRowPrice_OwnPrice(chk, price, numerator, denominator) ==
    IF chk.hasMarkerOrder
    THEN IF chk.isMarkerOrder THEN Num(price)
         ELSE IF chk.isBidMarkerOrder THEN Num(UNKNOWN_BID) ELSE Num(UNKNOWN_OFFER)
    ELSE IF denominator > 0 THEN Num(price) ELSE Num(0)

calculateRowPrice(chk, price, numerator, denominator) ==
    IF chk.hasMarkerOrder
    THEN IF chk.isMarkerOrder THEN Num(price)
         ELSE IF chk.isBidMarkerOrder THEN Num(UNKNOWN_BID) ELSE Num(UNKNOWN_OFFER)
    ELSE IF denominator > 0 THEN Quot(numerator, denominator) ELSE Num(0)

\* calculatePrice testing the flag of the current row, not the sticky one
calculatePrice_CurrentRow(chk, numerator, denominator) ==
    IF chk.isMarkerOrder
    THEN IF chk.isBidMarkerOrder THEN Num(BID) ELSE Num(OFFER)
    ELSE IF denominator > 0 THEN Quot(numerator, denominator) ELSE Num(0)

\* calculatePrice dividing whatever the denominator is: 0 / 0 is NaN, kept
\* here as the quotient with denominator 0
calculatePrice_Unguarded(chk, numerator, denominator) ==
    IF chk.hasMarkerOrder
    THEN IF chk.isBidMarkerOrder THEN Num(BID) ELSE Num(OFFER)
    ELSE IF denominator > 0 THEN Quot(numerator, denominator)
         ELSE [n |-> numerator, d |-> denominator]

calculatePrice(chk, numerator, denominator) ==
    IF chk.hasMarkerOrder
    THEN IF chk.isBidMarkerOrder THEN Num(BID) ELSE Num(OFFER)
    ELSE IF denominator > 0 THEN Quot(numerator, denominator) ELSE Num(0)

----------------------------------------------------------------------------
(* _calculateVBBO: the forEach over sortedArray from its i-th row on,     *)
(* writing cumQty and vbbo into the objects of side that the array holds  *)

RECURSIVE VBBOLoop(_, _, _, _, _, _)
VBBOLoop(side, sortedArray, i, value, cumQty, chk) ==
    IF i > Len(sortedArray)
    THEN side
    ELSE LET row      == side[sortedArray[i]]
             price    == row.price
             quantity == parseInt(row.qty)
             chk2     == checkMarketOrder(chk, price)
             cumQty2  == cumQty + quantity
             value2   == value + price * quantity
             row2     == [row EXCEPT !.cumQty = cumQty2,
                                     !.vbbo   = calculateRowPrice(chk2, price, value2, cumQty2)]
         IN  VBBOLoop([side EXCEPT ![sortedArray[i]] = row2],
                      sortedArray, i + 1, value2, cumQty2, chk2)

_calculateVBBO(side, sortedArray) == VBBOLoop(side, sortedArray, 1, 0, 0, NewChecker)

----------------------------------------------------------------------------
(* _calculateVwapForQty: the loop from row index on, then the result *)

\* qtyAdjust taking the whole row whatever remains
QtyAdjust_WholeRow(remaining, rowQty) == rowQty

\* var qtyAdjust = (remaining > rowQty ? rowQty : remaining)
QtyAdjust(remaining, rowQty) == IF remaining > rowQty THEN rowQty ELSE remaining

RECURSIVE VwapLoop(_, _, _, _, _, _, _)
VwapLoop(sortedArray, index, remaining, used, value, level, chk) ==
    IF index > Len(sortedArray)
    THEN [qty |-> used, price |-> calculatePrice(chk, value, used), level |-> level]
    ELSE LET rowQty    == parseInt(sortedArray[index].qty)
             rowPrice  == sortedArray[index].price
             chk2      == checkMarketOrder(chk, rowPrice)
             qtyAdjust == QtyAdjust(remaining, rowQty)
         IN  IF remaining > 0 /\ rowQty > 0
             THEN VwapLoop(sortedArray, index + 1, remaining - qtyAdjust,
                           used + qtyAdjust, value + qtyAdjust * rowPrice,
                           index - 1, chk2)
             ELSE VwapLoop(sortedArray, index + 1, remaining, used, value, level, chk2)

_calculateVwapForQty(qty, sortedArray) ==
    VwapLoop(sortedArray, 1, qty, 0, 0, -1, NewChecker)

----------------------------------------------------------------------------
(* The operations *)

NoVwap == [vwap |-> "", qty |-> 0,
           buyQty |-> 0, buyPrice |-> Num(0), buyLevel |-> -1,
           sellQty |-> 0, sellPrice |-> Num(0), sellLevel |-> -1]

Init ==
    /\ buySide = <<>>
    /\ sellSide = <<>>
    /\ sortedBuy = <<>>
    /\ sortedSell = <<>>
    /\ calls = <<>>
    /\ vwap = NoVwap
    /\ lastOp = [op |-> "new", consolidated |-> FALSE]
    /\ lastQty = [s \in Sides |-> [key \in Keys |-> 0]]
    /\ nUpdates = 0
    /\ nRedisplays = 0

updateBook(level, side, qty, price, venue) ==
    LET newRow == _createRow(price, qty, venue, level)
    IN  /\ nUpdates' = nUpdates + 1
        /\ IF side = BUY_SIDE
           THEN /\ buySide' = _setSideData(buySide, newRow)
                /\ UNCHANGED sellSide
           ELSE /\ sellSide' = _setSideData(sellSide, newRow)
                /\ UNCHANGED buySide
        /\ lastQty' = [lastQty EXCEPT ![IF side = BUY_SIDE THEN BUY_SIDE ELSE SELL_SIDE]
                                           [newRow.key] = qty]
        /\ lastOp' = [op |-> "updateBook", consolidated |-> FALSE]
        /\ calls' = <<>>
        /\ vwap' = NoVwap
        /\ UNCHANGED <<sortedBuy, sortedSell, nRedisplays>>

\* BookData.createUpdateObj, called by _redisplaySide with
\* Number(row.price).toFixed(4)
createUpdateObj(level, side, qty, price, venue, cumQty, vbbo) ==
    [level  |-> level,
     side   |-> side,
     qty    |-> qty,
     price  |-> toFixed4(price),
     venue  |-> venue,
     cumQty |-> cumQty,
     vbbo   |-> FixRound(vbbo.n, vbbo.d)]

\* _redisplaySide with rowCount incremented before the row is created
_redisplaySide_CountFirst(sortedArray, side) ==
    [i \in 1 .. Len(sortedArray) |->
        [call |-> "updateBook",
         arg  |-> createUpdateObj(i, side, sortedArray[i].qty,
                                  toFixed4(sortedArray[i].price), sortedArray[i].venue,
                                  sortedArray[i].cumQty, sortedArray[i].vbbo)]]

\* _redisplaySide: one callback.updateBook per row, rowCount from 0
_redisplaySide(sortedArray, side) ==
    [i \in 1 .. Len(sortedArray) |->
        [call |-> "updateBook",
         arg  |-> createUpdateObj(i - 1, side, sortedArray[i].qty,
                                  toFixed4(sortedArray[i].price), sortedArray[i].venue,
                                  sortedArray[i].cumQty, sortedArray[i].vbbo)]]

Max(a, b) == IF a > b THEN a ELSE b

redisplay(consolidated) ==
    LET dataBuy  == IF consolidated THEN _aggregate(buySide) ELSE Unaggregated(buySide)
        dataSell == IF consolidated THEN _aggregate(sellSide) ELSE Unaggregated(sellSide)
    IN  /\ nRedisplays' = nRedisplays + 1
        /\ \E arrBuy \in _sortValues(dataBuy, "_compareBuy"),
              arrSell \in _sortValues(dataSell, "_compareSell") :
              LET cutBuy  == Truncate(arrBuy, consolidated)
                  cutSell == Truncate(arrSell, consolidated)
                  newBuy  == _calculateVBBO(dataBuy.side, cutBuy)
                  newSell == _calculateVBBO(dataSell.side, cutSell)
                  rowsBuy  == [i \in 1 .. Len(cutBuy) |-> newBuy[cutBuy[i]]]
                  rowsSell == [i \in 1 .. Len(cutSell) |-> newSell[cutSell[i]]]
              IN  /\ buySide' = newBuy
                  /\ sellSide' = newSell
                  /\ sortedBuy' = rowsBuy
                  /\ sortedSell' = rowsSell
                  /\ calls' = <<[call |-> "resetWithCount",
                                 arg  |-> Max(Len(rowsBuy), Len(rowsSell))]>>
                              \o _redisplaySide(rowsBuy, BUY_SIDE)
                              \o _redisplaySide(rowsSell, SELL_SIDE)
                              \o <<[call |-> "OnRedisplay", arg |-> 0]>>
        /\ lastOp' = [op |-> "redisplay", consolidated |-> consolidated]
        /\ vwap' = NoVwap
        /\ UNCHANGED <<lastQty, nUpdates>>

\* resetData without the two assignments to the sorted arrays
resetData_KeepSorted ==
    /\ buySide' = <<>>
    /\ sellSide' = <<>>
    /\ lastQty' = [s \in Sides |-> [key \in DOMAIN lastQty[s] |-> 0]]
    /\ lastOp' = [op |-> "resetData", consolidated |-> FALSE]
    /\ calls' = <<>>
    /\ vwap' = NoVwap
    /\ UNCHANGED <<sortedBuy, sortedSell, nUpdates, nRedisplays>>

resetData ==
    /\ buySide' = <<>>
    /\ sellSide' = <<>>
    /\ sortedBuy' = <<>>
    /\ sortedSell' = <<>>
    /\ lastQty' = [s \in Sides |-> [key \in DOMAIN lastQty[s] |-> 0]]
    /\ lastOp' = [op |-> "resetData", consolidated |-> FALSE]
    /\ calls' = <<>>
    /\ vwap' = NoVwap
    /\ UNCHANGED <<nUpdates, nRedisplays>>

\* getVwapUpdate reading the Side maps in place of the sorted arrays
getVwapUpdate_FromSides(vwapName, qty) ==
    LET buyVwap  == _calculateVwapForQty(qty, buySide)
        sellVwap == _calculateVwapForQty(qty, sellSide)
    IN  /\ vwap' = [vwap |-> vwapName, qty |-> qty,
                    buyQty |-> buyVwap.qty, buyPrice |-> buyVwap.price,
                    buyLevel |-> buyVwap.level,
                    sellQty |-> sellVwap.qty, sellPrice |-> sellVwap.price,
                    sellLevel |-> sellVwap.level]
        /\ lastOp' = [op |-> "getVwapUpdate", consolidated |-> FALSE]
        /\ calls' = <<>>
        /\ UNCHANGED <<buySide, sellSide, sortedBuy, sortedSell, lastQty,
                       nUpdates, nRedisplays>>

getVwapUpdate(vwapName, qty) ==
    LET buyVwap  == _calculateVwapForQty(qty, sortedBuy)
        sellVwap == _calculateVwapForQty(qty, sortedSell)
    IN  /\ vwap' = [vwap |-> vwapName, qty |-> qty,
                    buyQty |-> buyVwap.qty, buyPrice |-> buyVwap.price,
                    buyLevel |-> buyVwap.level,
                    sellQty |-> sellVwap.qty, sellPrice |-> sellVwap.price,
                    sellLevel |-> sellVwap.level]
        /\ lastOp' = [op |-> "getVwapUpdate", consolidated |-> FALSE]
        /\ calls' = <<>>
        /\ UNCHANGED <<buySide, sellSide, sortedBuy, sortedSell, lastQty,
                       nUpdates, nRedisplays>>

\* The calls a client can make: the feed supplies levels of the sides in
\* feedSides at the prices in feedPrices; a run makes at most maxUpdates
\* updateBook and maxRedisplays redisplay calls
NextFor(feedSides, feedPrices, maxUpdates, maxRedisplays) ==
    \/ /\ nUpdates < maxUpdates
       /\ \E level \in Levels, side \in feedSides, qty \in Quantities,
             price \in feedPrices, venue \in FeedVenues :
             updateBook(level, side, qty, price, venue)
    \/ /\ nRedisplays < maxRedisplays
       /\ \E consolidated \in BOOLEAN : redisplay(consolidated)
    \/ resetData
    \/ \E qty \in 0 .. MaxVwapQty : getVwapUpdate("VWAP", qty)

\* Both sides, two venues, an ordinary price and a market order
Next == NextFor(Sides, {11, BID}, MaxUpdates, MaxRedisplays)

Spec == Init /\ [][Next]_vars

\* Buy levels only at the ordinary prices, in longer runs
NextDeep == NextFor({BUY_SIDE}, {0, 6, 11}, DeepUpdates, DeepRedisplays)

SpecDeep == Init /\ [][NextDeep]_vars

----------------------------------------------------------------------------
(* The display and VWAP passes over a filled book.  InitBook is any book   *)
(* that updateBook calls alone leave behind on one side: up to three       *)
(* levels, one per venue, stored in the order of KeyOrder, every level as  *)
(* _createRow made it.                                                     *)

KeyOrder == <<"XEQT", "A", "B">>

NoLevel == <<>>

\* the book after updateBook(1, side, fill[i][2], fill[i][1], KeyOrder[i])
\* for every i with a level
BookOf(fill) ==
    LET all == [i \in 1 .. Len(KeyOrder) |->
                   IF fill[i] = NoLevel THEN NoLevel
                   ELSE _createRow(fill[i][1], fill[i][2], KeyOrder[i], 1)]
    IN  SelectSeq(all, LAMBDA row : row # NoLevel)

Fills == [1 .. Len(KeyOrder) -> {NoLevel} \cup (Prices \X (Quantities \ {0}))]

QtyOf(book, key) == IF HasKey(book, key) THEN book[IndexOf(book, key)].qty ELSE 0

InitBook ==
    \E side \in Sides, fill \in Fills :
        LET book == BookOf(fill)
        IN  /\ buySide = IF side = BUY_SIDE THEN book ELSE <<>>
            /\ sellSide = IF side = BUY_SIDE THEN <<>> ELSE book
            /\ sortedBuy = <<>>
            /\ sortedSell = <<>>
            /\ calls = <<>>
            /\ vwap = NoVwap
            /\ lastOp = [op |-> "updateBook", consolidated |-> FALSE]
            /\ lastQty = [s \in Sides |-> [key \in Keys |->
                             IF s = side THEN QtyOf(book, key) ELSE 0]]
            /\ nUpdates = Len(book)
            /\ nRedisplays = 0

NextPass ==
    \/ /\ nRedisplays < MaxRedisplays
       /\ \E consolidated \in BOOLEAN : redisplay(consolidated)
    \/ resetData
    \/ \E qty \in 0 .. MaxVwapQty : getVwapUpdate("VWAP", qty)

SpecPass == InitBook /\ [][NextPass]_vars

----------------------------------------------------------------------------
(* A book of both sides, one venue, filled level by level along the        *)
(* ladders, and the calls of a client after that: updateBook for the level *)
(* of the market order (removal, or a new price and quantity), with a side *)
(* argument that is BUY_SIDE, SELL_SIDE or neither.                        *)

\* updateBook and redisplay calls in a run of SpecBoth, the book once filled
BookUpdates == 1

BookRedisplays == 2

\* the book after updateBook(i, side, 1, ladder[i], 'A') for i = 1 .. n
LadderBook(ladder, n) == [i \in 1 .. n |-> _createRow(ladder[i], 1, "A", i)]

BookDepths == {1, 3, Len(BuyLadder)}

MarkerLevel == CHOOSE i \in 1 .. Len(BuyLadder) : BuyLadder[i] = BID

\* the side arguments of updateBook: the two constants and another value
\* (the test at line 33 is side == this.BUY_SIDE)
SideArguments == {BUY_SIDE, SELL_SIDE, BUY_SIDE + SELL_SIDE}

\* nUpdates counts the updateBook calls made after the book was filled
InitBoth ==
    \E nBuy \in BookDepths, nSell \in BookDepths :
        /\ buySide = LadderBook(BuyLadder, nBuy)
        /\ sellSide = LadderBook(SellLadder, nSell)
        /\ sortedBuy = <<>>
        /\ sortedSell = <<>>
        /\ calls = <<>>
        /\ vwap = NoVwap
        /\ lastOp = [op |-> "updateBook", consolidated |-> FALSE]
        /\ lastQty = [s \in Sides |-> [key \in BookKeys |->
                         QtyOf(LadderBook(IF s = BUY_SIDE THEN BuyLadder ELSE SellLadder,
                                          IF s = BUY_SIDE THEN nBuy ELSE nSell), key)]]
        /\ nUpdates = 0
        /\ nRedisplays = 0

NextBoth ==
    \/ /\ nUpdates < BookUpdates
       /\ \E side \in SideArguments, qty \in {0, 2} :
             updateBook(MarkerLevel, side, qty, 11, "A")
    \/ /\ nRedisplays < BookRedisplays
       /\ \E consolidated \in BOOLEAN : redisplay(consolidated)
    \/ resetData
    \/ \E qty \in {0, 1, Len(BuyLadder)} : getVwapUpdate("VWAP", qty)

SpecBoth == InitBoth /\ [][NextBoth]_vars

----------------------------------------------------------------------------
(* Properties *)

SideOf(s) == IF s = BUY_SIDE THEN buySide ELSE sellSide

SortedOf(s) == IF s = BUY_SIDE THEN sortedBuy ELSE sortedSell

\* the rows sent to callback.updateBook for side s by the last operation
EmittedRows(s) ==
    LET sent == SelectSeq(calls, LAMBDA c : c.call = "updateBook" /\ c.arg.side = s)
    IN  [i \in 1 .. Len(sent) |-> sent[i].arg]

IsMarker(price) == price = BID \/ price = OFFER

NoMarkerIn(rows) == \A i \in 1 .. Len(rows) : ~IsMarker(rows[i].price)

\* nums[1] + ... + nums[n]
RECURSIVE SumTo(_, _)
SumTo(nums, n) == IF n = 0 THEN 0 ELSE SumTo(nums, n - 1) + nums[n]

RowQuantities(rows) == [i \in 1 .. Len(rows) |-> rows[i].qty]

Notionals(rows) == [i \in 1 .. Len(rows) |-> rows[i].price * rows[i].qty]

\* C1: no level of quantity 0 is stored on either side, and a key is stored
\* on a side exactly when the last updateBook for that key and side since
\* the last resetData had a quantity other than 0.
C1_ZeroQuantityNotStored ==
    \A s \in Sides :
        /\ \A i \in 1 .. Len(SideOf(s)) : SideOf(s)[i].qty # 0
        /\ \A key \in Keys : HasKey(SideOf(s), key) <=> lastQty[s][key] # 0
        /\ \A i, j \in 1 .. Len(SideOf(s)) : SideOf(s)[i].k = SideOf(s)[j].k => i = j

\* a Sell level that was stored and displayed has been removed by an
\* updateBook of quantity 0
C1_Witness ==
    /\ lastOp.op = "updateBook"
    /\ sellSide = <<>>
    /\ Len(sortedSell) = 1
    /\ lastQty[SELL_SIDE][sortedSell[1].k] = 0
    /\ nUpdates = 2

\* C2: in a consolidated redisplay every emitted row's quantity is the sum
\* of the quantities last given to updateBook for the stored levels of its
\* side whose price rounds to the row's price.
C2_ConsolidatedQuantityIsSum ==
    (lastOp.op = "redisplay" /\ lastOp.consolidated) =>
        \A s \in Sides :
            \A r \in 1 .. Len(EmittedRows(s)) :
                LET supplied == [i \in 1 .. Len(SideOf(s)) |->
                                    IF toFixed4(SideOf(s)[i].price) = EmittedRows(s)[r].price
                                    THEN lastQty[s][SideOf(s)[i].k] ELSE 0]
                IN  EmittedRows(s)[r].qty = SumTo(supplied, Len(supplied))

RoundedPrices(rows) == {toFixed4(rows[i].price) : i \in 1 .. Len(rows)}

\* C3: the map that _aggregate returns has one entry for every rounded
\* price stored on the side: after a consolidated redisplay the emitted rows
\* of a side (at most five prices being stored) are one row per rounded price.
C3_OneRowPerRoundedPrice ==
    (lastOp.op = "redisplay" /\ lastOp.consolidated) =>
        \A s \in Sides :
            /\ {EmittedRows(s)[r].price : r \in 1 .. Len(EmittedRows(s))}
                   = RoundedPrices(SideOf(s))
            /\ Len(EmittedRows(s)) = Cardinality(RoundedPrices(SideOf(s)))

FullyConsolidated(side) ==
    \A i, j \in 1 .. Len(side) :
        toFixed4(side[i].price) = toFixed4(side[j].price) => i = j

\* C4: _aggregate of a Side map that holds one entry per rounded price
\* returns a map with the same property names and the same (price, quantity)
\* pairs.
C4_AggregateIdempotent ==
    \A s \in Sides :
        FullyConsolidated(SideOf(s)) =>
            LET out == _aggregate(SideOf(s))
            IN  /\ {out.side[out.rows[r]].key : r \in 1 .. Len(out.rows)}
                       = {SideOf(s)[i].k : i \in 1 .. Len(SideOf(s))}
                /\ {<<out.side[out.rows[r]].price, out.side[out.rows[r]].qty>> :
                        r \in 1 .. Len(out.rows)}
                       = {<<SideOf(s)[i].price, SideOf(s)[i].qty>> :
                              i \in 1 .. Len(SideOf(s))}

C7_VBBOWithoutMarker ==
    \A s \in Sides :
        NoMarkerIn(SortedOf(s)) =>
            \A i \in 1 .. Len(SortedOf(s)) :
                LET row      == SortedOf(s)[i]
                    cumQty   == SumTo(RowQuantities(SortedOf(s)), i)
                    notional == SumTo(Notionals(SortedOf(s)), i)
                IN  /\ row.cumQty = cumQty
                    /\ row.vbbo.n * cumQty = row.vbbo.d * notional
                    /\ i > 1 => SortedOf(s)[i - 1].cumQty <= row.cumQty
                    /\ lastOp.op = "redisplay" =>
                           /\ EmittedRows(s)[i].cumQty = cumQty
                           /\ EmittedRows(s)[i].vbbo = FixRound(notional, cumQty)

\* two priced levels displayed, the second row's vbbo a proper average
C7_Witness ==
    /\ lastOp.op = "redisplay"
    /\ Len(sortedBuy) = 2
    /\ sortedBuy[1].price = 11 /\ sortedBuy[1].qty = 1
    /\ sortedBuy[2].price = 6 /\ sortedBuy[2].qty = 2
    /\ sortedBuy[2].cumQty = 3
    /\ sortedBuy[2].vbbo = [n |-> 23, d |-> 3]

\* C8: in a display, every row that stands at or after a row of the BID
\* marker price carries UNKNOWN_BID as vbbo if its price is no marker and
\* its own price if its price is a marker.
C8_VBBOAfterBidMarker ==
    \A s \in Sides :
        \A i, j \in 1 .. Len(SortedOf(s)) :
            (i <= j /\ SortedOf(s)[i].price = BID) =>
                SortedOf(s)[j].vbbo
                    = IF IsMarker(SortedOf(s)[j].price)
                      THEN Num(SortedOf(s)[j].price)
                      ELSE Num(UNKNOWN_BID)

\* a BID market order displayed before a priced level and an OFFER marker
C8_Witness ==
    /\ lastOp.op = "redisplay"
    /\ Len(sortedBuy) = 3
    /\ sortedBuy[1].price = BID /\ sortedBuy[1].vbbo = Num(BID)
    /\ sortedBuy[2].price = 11 /\ sortedBuy[2].vbbo = Num(UNKNOWN_BID)
    /\ sortedBuy[3].price = OFFER /\ sortedBuy[3].vbbo = Num(OFFER)

Min(a, b) == IF a < b THEN a ELSE b

\* what a request of qty takes from row i of rows: what is left of qty after
\* the rows before it, up to the row's own quantity
TakenFrom(rows, qty, i) ==
    Min(rows[i].qty, Max(0, qty - SumTo(RowQuantities(rows), i - 1)))

Taken(rows, qty) == [i \in 1 .. Len(rows) |-> TakenFrom(rows, qty, i)]

\* the expected result of a side: quantity, level, and price when no row has
\* a marker price and something was taken
VwapExpected(rows, qty, gotQty, gotPrice, gotLevel) ==
    LET taken   == Taken(rows, qty)
        used    == Min(qty, SumTo(RowQuantities(rows), Len(rows)))
        givers  == {i \in 1 .. Len(rows) : taken[i] > 0}
        value   == SumTo([i \in 1 .. Len(rows) |-> taken[i] * rows[i].price], Len(rows))
    IN  /\ gotQty = used
        /\ gotLevel = IF givers = {} THEN -1
                      ELSE (CHOOSE i \in givers : \A g \in givers : g <= i) - 1
        /\ (NoMarkerIn(rows) /\ used > 0) => gotPrice.n * used = gotPrice.d * value

\* C9: getVwapUpdate(name, q) returns per side the quantity min(q, total of
\* the side's last display), the index of the last row that gave a positive
\* amount (-1 if none did) and, no row having a marker price, the sum of
\* taken * price over the rows divided by the quantity taken.
C9_VwapFill ==
    lastOp.op = "getVwapUpdate" =>
        /\ VwapExpected(sortedBuy, vwap.qty, vwap.buyQty, vwap.buyPrice, vwap.buyLevel)
        /\ VwapExpected(sortedSell, vwap.qty, vwap.sellQty, vwap.sellPrice, vwap.sellLevel)

\* 2 requested of rows of 1 at 0.00011 and 2 at 0.00006: the second row
\* gives 1 of its 2
C9_Witness ==
    /\ lastOp.op = "getVwapUpdate"
    /\ vwap.qty = 2
    /\ Len(sortedBuy) = 2
    /\ sortedBuy[1].price = 11 /\ sortedBuy[1].qty = 1
    /\ sortedBuy[2].price = 6 /\ sortedBuy[2].qty = 2
    /\ vwap.buyQty = 2
    /\ vwap.buyLevel = 1
    /\ vwap.buyPrice = [n |-> 17, d |-> 2]

\* the price of the last row of rows that has a marker price
LastMarker(rows) ==
    rows[CHOOSE i \in 1 .. Len(rows) :
            /\ IsMarker(rows[i].price)
            /\ \A j \in 1 .. Len(rows) : IsMarker(rows[j].price) => j <= i].price

\* C10: if a row of the side's last display has a marker price, wherever it
\* stands, the VWAP price returned for the side is the marker of the last
\* such row, BID or OFFER.
C10_VwapWithMarker ==
    lastOp.op = "getVwapUpdate" =>
        /\ ~NoMarkerIn(sortedBuy) => vwap.buyPrice = Num(LastMarker(sortedBuy))
        /\ ~NoMarkerIn(sortedSell) => vwap.sellPrice = Num(LastMarker(sortedSell))

\* 1 requested and filled from the first row; the OFFER marker stands after it
C10_Witness ==
    /\ lastOp.op = "getVwapUpdate"
    /\ vwap.qty = 1
    /\ Len(sortedBuy) = 2
    /\ sortedBuy[1].price = 11
    /\ sortedBuy[2].price = OFFER
    /\ vwap.buyQty = 1
    /\ vwap.buyLevel = 0
    /\ vwap.buyPrice = Num(OFFER)


\* the stored objects of side s that a consolidated redisplay has aggregated
\* (their venue is '') and that are not among the rows of its display
CutRows(s) ==
    {i \in 1 .. Len(SideOf(s)) :
        /\ SideOf(s)[i].venue = ""
        /\ \A r \in 1 .. Len(SortedOf(s)) : SortedOf(s)[r].k # SideOf(s)[i].k}

C12_EmissionProtocol ==
    lastOp.op = "redisplay" =>
        LET nBuy  == Len(sortedBuy)
            nSell == Len(sortedSell)
        IN  /\ Len(calls) = nBuy + nSell + 2
            /\ \A i \in 1 .. Len(calls) :
                  /\ calls[i].call = "resetWithCount" <=> i = 1
                  /\ calls[i].call = "OnRedisplay" <=> i = Len(calls)
                  /\ calls[i].call = "updateBook" <=> (1 < i /\ i < Len(calls))
            /\ \A i \in 1 .. nBuy :
                  /\ calls[1 + i].arg.side = BUY_SIDE
                  /\ calls[1 + i].arg.level = i - 1
                  /\ calls[1 + i].arg.price = toFixed4(sortedBuy[i].price)
                  /\ calls[1 + i].arg.qty = sortedBuy[i].qty
                  /\ i > 1 => calls[i].arg.price >= calls[1 + i].arg.price
            /\ \A i \in 1 .. nSell :
                  /\ calls[1 + nBuy + i].arg.side = SELL_SIDE
                  /\ calls[1 + nBuy + i].arg.level = i - 1
                  /\ calls[1 + nBuy + i].arg.price = toFixed4(sortedSell[i].price)
                  /\ calls[1 + nBuy + i].arg.qty = sortedSell[i].qty
                  /\ i > 1 => calls[nBuy + i].arg.price <= calls[1 + nBuy + i].arg.price

\* three Buy rows and six Sell rows displayed: eleven callbacks, the Sell
\* rows numbered from 0 again
C12_Witness ==
    /\ lastOp.op = "redisplay"
    /\ Len(calls) = 11
    /\ calls[4].arg.side = BUY_SIDE /\ calls[4].arg.level = 2
    /\ calls[5].arg.side = SELL_SIDE /\ calls[5].arg.level = 0
    /\ calls[10].arg.side = SELL_SIDE /\ calls[10].arg.level = 5
    /\ calls[11].call = "OnRedisplay"


\* C13: every resetData leaves both sides and both sorted arrays empty; a
\* redisplay that follows it calls resetWithCount(0), sends no row and raises
\* OnRedisplay; a getVwapUpdate that follows it returns quantity 0, price 0
\* and level -1 for both sides.
C13_Reset ==
    [][/\ lastOp'.op = "resetData" =>
              /\ buySide' = <<>> /\ sellSide' = <<>>
              /\ sortedBuy' = <<>> /\ sortedSell' = <<>>
       /\ (lastOp.op = "resetData" /\ lastOp'.op = "redisplay") =>
              /\ calls' = <<[call |-> "resetWithCount", arg |-> 0],
                            [call |-> "OnRedisplay", arg |-> 0]>>
              /\ buySide' = <<>> /\ sellSide' = <<>>
              /\ sortedBuy' = <<>> /\ sortedSell' = <<>>
       /\ (lastOp.op = "resetData" /\ lastOp'.op = "getVwapUpdate") =>
              /\ vwap'.buyQty = 0 /\ vwap'.buyPrice = Num(0) /\ vwap'.buyLevel = -1
              /\ vwap'.sellQty = 0 /\ vwap'.sellPrice = Num(0) /\ vwap'.sellLevel = -1
      ]_vars

\* a book that was displayed, updated and reset (only resetData empties a
\* side here: the first level of a side is never removed), then displayed
\* again with no row
C13_Witness ==
    /\ lastOp.op = "redisplay"
    /\ nRedisplays = 2
    /\ nUpdates = 1
    /\ buySide = <<>> /\ sellSide = <<>>
    /\ Len(calls) = 2
    /\ calls[1].arg = 0


\* C14: for two levels of equal quantity that a redisplay has sorted,
\* compareCommon ranks the left one first (a negative result) if its venue
\* is XEQT, else the right one first (a positive result) if the right venue
\* is XEQT; else it ranks the left one first exactly when the left venue
\* code is the smaller string, and it ranks the two equal (0) in every other
\* case.
C14_VenueTieBreak ==
    \A s \in Sides :
        \A i, j \in 1 .. Len(SortedOf(s)) :
            LET lhs    == SortedOf(s)[i]
                rhs    == SortedOf(s)[j]
                result == compareCommon(lhs, rhs)
            IN  (lastOp.op = "redisplay" /\ lhs.qty = rhs.qty) =>
                    IF lhs.venue = "XEQT" THEN result < 0
                    ELSE IF rhs.venue = "XEQT" THEN result > 0
                    ELSE IF VenueRank(lhs.venue) < VenueRank(rhs.venue) THEN result < 0
                    ELSE result = 0

Sign(x) == IF x < 0 THEN -1 ELSE IF x > 0 THEN 1 ELSE 0

\* C15: on the levels that a redisplay has sorted, _compareBuy and
\* _compareSell are each a total order: the sign of compare(a, b) is the
\* negation of the sign of compare(b, a), so that compare(a, a) is 0, and if
\* a is not after b and b is not after c then a is not after c.
C15_ComparatorsTotalOrder ==
    \A s \in Sides, compare \in {"_compareBuy", "_compareSell"} :
        \A i, j, l \in 1 .. Len(SortedOf(s)) :
            LET a == SortedOf(s)[i]
                b == SortedOf(s)[j]
                c == SortedOf(s)[l]
            IN  lastOp.op = "redisplay" =>
                /\ Sign(Call(compare, a, b)) = -Sign(Call(compare, b, a))
                /\ (Call(compare, a, b) <= 0 /\ Call(compare, b, c) <= 0)
                       => Call(compare, a, c) <= 0


MarkerUpTo(rows, j) == \E i \in 1 .. j : IsMarker(rows[i].price)

\* C16: in the display of a side, every row at or after a row of that side
\* with a marker price carries its own price (a marker row) or one of the
\* UNKNOWN values as vbbo, never an average; every row before the side's
\* first marker row carries the average of the side's own rows up to it,
\* whatever the other side or an earlier display held.  A VWAP price is BID
\* or OFFER if the side's own display has a marker row, and else the average
\* over what was taken (0 if nothing was).
C16_TrackerLifecycle ==
    \A s \in Sides :
        LET rows == SortedOf(s)
        IN  /\ \A j \in 1 .. Len(rows) :
                  IF MarkerUpTo(rows, j)
                  THEN IF IsMarker(rows[j].price)
                       THEN rows[j].vbbo = Num(rows[j].price)
                       ELSE rows[j].vbbo \in {Num(UNKNOWN_BID), Num(UNKNOWN_OFFER)}
                  ELSE rows[j].vbbo.n * SumTo(RowQuantities(rows), j)
                           = rows[j].vbbo.d * SumTo(Notionals(rows), j)
            /\ lastOp.op = "getVwapUpdate" =>
                  LET price == IF s = BUY_SIDE THEN vwap.buyPrice ELSE vwap.sellPrice
                      used  == IF s = BUY_SIDE THEN vwap.buyQty ELSE vwap.sellQty
                      taken == Taken(rows, vwap.qty)
                      value == SumTo([i \in 1 .. Len(rows) |-> taken[i] * rows[i].price],
                                     Len(rows))
                  IN  IF MarkerUpTo(rows, Len(rows))
                      THEN price \in {Num(BID), Num(OFFER)}
                      ELSE IF used = 0 THEN price = Num(0)
                      ELSE price.n * used = price.d * value

\* the BID market order of a Buy book of three levels has been removed and
\* the book displayed again: the Buy rows carry averages, while the Sell
\* display still has its OFFER market order and the UNKNOWN_OFFER rows
C16_Witness ==
    /\ lastOp.op = "redisplay"
    /\ nRedisplays = 2
    /\ nUpdates = 1
    /\ lastQty[BUY_SIDE][<<"A", MarkerLevel>>] = 0
    /\ Len(sortedBuy) = 2
    /\ sortedBuy[1].vbbo = Num(30)
    /\ sortedBuy[2].vbbo = [n |-> 41, d |-> 2]
    /\ Len(sortedSell) = 3
    /\ sortedSell[1].price = OFFER
    /\ sortedSell[2].vbbo = Num(UNKNOWN_OFFER)


\* the trackers that have seen no marker price
CleanCheckers ==
    {chk \in [isMarkerOrder : BOOLEAN, isBidMarkerOrder : BOOLEAN, hasMarkerOrder : BOOLEAN] :
        ~chk.hasMarkerOrder}

\* C17: with a tracker that has seen no marker price, calculateRowPrice and
\* calculatePrice return 0 for a quantity of 0; a getVwapUpdate that took
\* nothing from a display without marker rows (a request of 0, an empty
\* display) returns the price 0; and every vbbo and every VWAP price an
\* operation leaves behind is a number.
C17_DivisionGuarded ==
    /\ \A chk \in CleanCheckers, price \in Prices, numerator \in -1 .. 1 :
          /\ calculateRowPrice(chk, price, numerator, 0) = Num(0)
          /\ calculatePrice(chk, numerator, 0) = Num(0)
    /\ \A s \in Sides :
          \A j \in 1 .. Len(SortedOf(s)) : SortedOf(s)[j].vbbo.d > 0
    /\ vwap.buyPrice.d > 0
    /\ vwap.sellPrice.d > 0
    /\ lastOp.op = "getVwapUpdate" =>
          /\ (NoMarkerIn(sortedBuy) /\ vwap.buyQty = 0) => vwap.buyPrice = Num(0)
          /\ (NoMarkerIn(sortedSell) /\ vwap.sellQty = 0) => vwap.sellPrice = Num(0)

\* a request of 0 on a Buy display of two priced rows and an empty Sell
\* display
C17_Witness ==
    /\ lastOp.op = "getVwapUpdate"
    /\ vwap.qty = 0
    /\ Len(sortedBuy) = 2
    /\ NoMarkerIn(sortedBuy)
    /\ vwap.buyQty = 0
    /\ vwap.buyPrice = Num(0)
    /\ sortedSell = <<>>
    /\ vwap.sellPrice = Num(0)


\* C18: a redisplay that is not consolidated sends one row per stored key of
\* each side, and every stored level still has the quantity last given to
\* updateBook for its key, the venue of its key and its own key, and is sent
\* with that quantity and venue, whatever redisplays came before.
C18_UnconsolidatedShowsStored ==
    (lastOp.op = "redisplay" /\ ~lastOp.consolidated) =>
        \A s \in Sides :
            /\ Len(EmittedRows(s)) = Len(SideOf(s))
            /\ \A i \in 1 .. Len(SideOf(s)) :
                  LET row == SideOf(s)[i]
                  IN  /\ row.qty = lastQty[s][row.k]
                      /\ row.venue = row.k[1]
                      /\ row.key = row.k
                      /\ \E r \in 1 .. Len(EmittedRows(s)) :
                            /\ EmittedRows(s)[r].price = toFixed4(row.price)
                            /\ EmittedRows(s)[r].qty = lastQty[s][row.k]
                            /\ EmittedRows(s)[r].venue = row.k[1]


\* the VWAP of qty that the rows of a display give: quantity, level and
\* price, the price being the last marker of the rows if they have one
VwapOfRows(rows, qty, gotQty, gotPrice, gotLevel) ==
    /\ VwapExpected(rows, qty, gotQty, gotPrice, gotLevel)
    /\ ~NoMarkerIn(rows) => gotPrice = Num(LastMarker(rows))
    /\ gotQty = 0 /\ NoMarkerIn(rows) => gotPrice = Num(0)

\* C19: updateBook and getVwapUpdate leave both sorted arrays as the last
\* redisplay or resetData left them; getVwapUpdate leaves both sides as they
\* are, and its result is the VWAP of the rows of the sorted arrays, whatever
\* updateBook has removed or overwritten since; right after a consolidated
\* redisplay these are at most 5 rows per side.
C19_VwapReadsSnapshot ==
    [][/\ lastOp'.op \in {"updateBook", "getVwapUpdate"} =>
              /\ sortedBuy' = sortedBuy
              /\ sortedSell' = sortedSell
       /\ lastOp'.op = "getVwapUpdate" =>
              /\ buySide' = buySide
              /\ sellSide' = sellSide
              /\ VwapOfRows(sortedBuy, vwap'.qty, vwap'.buyQty, vwap'.buyPrice,
                            vwap'.buyLevel)
              /\ VwapOfRows(sortedSell, vwap'.qty, vwap'.sellQty, vwap'.sellPrice,
                            vwap'.sellLevel)
       /\ (lastOp.op = "redisplay" /\ lastOp.consolidated
             /\ lastOp'.op = "getVwapUpdate") =>
              /\ Len(sortedBuy) <= 5 /\ vwap'.buyLevel < 5
              /\ Len(sortedSell) <= 5 /\ vwap'.sellLevel < 5
      ]_vars

\* a Buy book of six levels was consolidated to five rows, the first of them
\* the BID market order; updateBook then removed that order from the book,
\* and a request of 6 still takes the five rows and returns BID
C19_Witness ==
    /\ lastOp.op = "getVwapUpdate"
    /\ vwap.qty = 6
    /\ nUpdates = 1
    /\ Len(buySide) = 5
    /\ ~HasKey(buySide, <<"A", MarkerLevel>>)
    /\ Len(sortedBuy) = 5
    /\ sortedBuy[1].price = BID
    /\ vwap.buyQty = 5
    /\ vwap.buyLevel = 4
    /\ vwap.buyPrice = Num(BID)


\* the entries of a Side map other than the one stored under key, in order
Without(sideData, key) == SelectSeq(sideData, LAMBDA row : row.k # key)

\* C20: an updateBook call leaves both sorted arrays as they are and calls
\* no callback; it leaves one side as it is and, on the other, every entry
\* but the one of a single key.  Called with (level, side, qty, price,
\* venue), the side it may change is Buy if side is BUY_SIDE and Sell for
\* every other value of side, and the key is (venue, level), whose entry is
\* then absent if qty is 0 and else holds the price, qty and venue given.
C20_UpdateBookFrame ==
    [][/\ lastOp'.op = "updateBook" =>
              /\ sortedBuy' = sortedBuy
              /\ sortedSell' = sortedSell
              /\ calls' = <<>>
              /\ \E key \in BookKeys :
                    \/ /\ sellSide' = sellSide
                       /\ Without(buySide', key) = Without(buySide, key)
                    \/ /\ buySide' = buySide
                       /\ Without(sellSide', key) = Without(sellSide, key)
       /\ \A side \in SideArguments, qty \in {0, 2} :
              updateBook(MarkerLevel, side, qty, 11, "A") =>
                  LET key      == <<"A", MarkerLevel>>
                      sideData == IF side = BUY_SIDE THEN buySide' ELSE sellSide'
                      kept     == IF side = BUY_SIDE THEN sellSide' = sellSide
                                  ELSE buySide' = buySide
                      others   == IF side = BUY_SIDE
                                  THEN Without(buySide', key) = Without(buySide, key)
                                  ELSE Without(sellSide', key) = Without(sellSide, key)
                      entry    == SelectSeq(sideData, LAMBDA row : row.k = key)
                  IN  /\ kept
                      /\ others
                      /\ IF qty = 0 THEN entry = <<>>
                         ELSE /\ Len(entry) = 1
                              /\ entry[1].price = 11
                              /\ entry[1].qty = qty
                              /\ entry[1].venue = "A"
      ]_vars

\* after a display of three rows per side, updateBook has given the level
\* of the Sell market order a price and a quantity of 2: the other Sell
\* levels, the Buy side and the displayed rows are as before
C20_Witness ==
    /\ lastOp.op = "updateBook"
    /\ nUpdates = 1
    /\ calls = <<>>
    /\ Len(sellSide) = 3
    /\ sellSide[MarkerLevel].price = 11
    /\ sellSide[MarkerLevel].qty = 2
    /\ Len(sortedSell) = 3
    /\ sortedSell[1].price = OFFER
    /\ Len(buySide) = 3
    /\ HasKey(buySide, <<"A", MarkerLevel>>)
    /\ buySide[MarkerLevel].price = BID

====
